---------------------------- MODULE Spec2Model ----------------------------
(* nvim-oldfiles-cleaner: the record stream filter (filter_oldfiles, Entry) *)
(* and the backup-then-install sequence of main, modelled from             *)
(* src/nvim-oldfiles-cleaner.py.                                            *)
(*                                                                          *)
(* The history file is a byte sequence.  The codec (msgpack Unpacker and    *)
(* packb) is modelled on a subset of the format: positive fixint, uint8,    *)
(* fixstr, bin8 and fixmap whose values are scalars; 0xc1 is the reserved   *)
(* byte every decoder rejects.  A decoded value is a record                 *)
(*   [t : "int" | "str" | "bin" | "map", n : Nat, b : bytes, m : entries].  *)
EXTENDS Integers, Sequences, FiniteSets, TLC

(***************************************************************************)
(* Bounds                                                                  *)
(***************************************************************************)
MaxRecs == 2

MaxMainRecs == 2

(***************************************************************************)
(* Decoded values                                                          *)
(***************************************************************************)
IntV(k) == [t |-> "int", n |-> k, b |-> <<>>, m |-> <<>>]

StrV(s) == [t |-> "str", n |-> 0, b |-> s, m |-> <<>>]

BinV(s) == [t |-> "bin", n |-> 0, b |-> s, m |-> <<>>]

MapV(es) == [t |-> "map", n |-> 0, b |-> <<>>, m |-> es]

NoneV == [t |-> "none", n |-> 0, b |-> <<>>, m |-> <<>>]

\* a scalar stored inside a map entry (no nested containers in the subset)
Scalar(v) == [t |-> v.t, n |-> v.n, b |-> v.b]

Unscalar(e) == [t |-> e.t, n |-> e.n, b |-> e.b, m |-> <<>>]

(***************************************************************************)
(* msgpack.Unpacker: one value from byte sequence s at position p.         *)
(* Result st is "ok", "eof" (OutOfData, which __next__ turns into          *)
(* StopIteration) or "err" (a decode exception).                           *)
(***************************************************************************)
Ascii(s) == \A i \in 1..Len(s) : s[i] < 128

UnpackScalar(s, p) ==
    IF p > Len(s) THEN [st |-> "eof", val |-> NoneV, next |-> p]
    ELSE LET c == s[p] IN
      IF c < 128 THEN [st |-> "ok", val |-> IntV(c), next |-> p + 1]
      ELSE IF c = 204 THEN
        IF p + 1 > Len(s) THEN [st |-> "eof", val |-> NoneV, next |-> p]
        ELSE [st |-> "ok", val |-> IntV(s[p + 1]), next |-> p + 2]
      ELSE IF c >= 160 /\ c <= 191 THEN
        LET k == c - 160 IN
        IF p + k > Len(s) THEN [st |-> "eof", val |-> NoneV, next |-> p]
        ELSE IF ~Ascii(SubSeq(s, p + 1, p + k))
          THEN [st |-> "err", val |-> NoneV, next |-> p]
        ELSE [st |-> "ok", val |-> StrV(SubSeq(s, p + 1, p + k)), next |-> p + k + 1]
      ELSE IF c = 196 THEN
        IF p + 1 > Len(s) THEN [st |-> "eof", val |-> NoneV, next |-> p]
        ELSE LET k == s[p + 1] IN
          IF p + 1 + k > Len(s) THEN [st |-> "eof", val |-> NoneV, next |-> p]
          ELSE [st |-> "ok", val |-> BinV(SubSeq(s, p + 2, p + 1 + k)), next |-> p + k + 2]
      ELSE [st |-> "err", val |-> NoneV, next |-> p]

\* a Python dict: a key seen again replaces the value at its first position
DictPut(es, k, v) ==
    IF \E i \in 1..Len(es) : es[i].k = k
    THEN [i \in 1..Len(es) |-> IF es[i].k = k THEN [k |-> k, v |-> v] ELSE es[i]]
    ELSE Append(es, [k |-> k, v |-> v])

Stopped(r, p) == [st |-> r.st, val |-> NoneV, next |-> p]

RECURSIVE UnpackEntries(_, _, _, _)

\* the value of a map entry has been read
UnpackedValue(s, p, k, es, key, v) ==
    IF v.st # "ok" THEN Stopped(v, p)
    ELSE UnpackEntries(s, v.next, k - 1, DictPut(es, Scalar(key.val), Scalar(v.val)))

\* the key of a map entry has been read; an int key is refused (strict_map_key)
UnpackedKey(s, p, k, es, key) ==
    IF key.st # "ok" THEN Stopped(key, p)
    ELSE IF key.val.t = "int" THEN [st |-> "err", val |-> NoneV, next |-> p]
    ELSE UnpackedValue(s, p, k, es, key, UnpackScalar(s, key.next))

\* k entries of a map from position p
UnpackEntries(s, p, k, es) ==
    IF k = 0 THEN [st |-> "ok", val |-> MapV(es), next |-> p]
    ELSE UnpackedKey(s, p, k, es, UnpackScalar(s, p))

\* a value that did not decode leaves the position where it began
Rewind(r, p) == IF r.st = "ok" THEN r ELSE [r EXCEPT !.next = p]

Unpack(s, p) ==
    IF p <= Len(s) /\ s[p] >= 128 /\ s[p] <= 143
    THEN Rewind(UnpackEntries(s, p + 1, s[p] - 128, <<>>), p)
    ELSE UnpackScalar(s, p)


(***************************************************************************)
(* State                                                                   *)
(***************************************************************************)
VARIABLES
    unpackable,      \* codec: the values for which packb results in nothing
    fsStat,          \* filesystem: path -> "exists" | "enoent" | "eacces"
    existsRaises,    \* Path.exists re-raises errors it does not ignore
    args,            \* parsed command line (MyNamespace)
    stdins,          \* lines read from a non-interactive stdin
    fzfOut,          \* lines selected in fzf
    isatty,          \* sys.stdin.isatty()
    recsIn,          \* the records the history file was written from
    tailIn,          \* the bytes after the last complete record
    fin,             \* bytes the filter reads
    preds,           \* predicate list of the filter
    fout,            \* bytes the filter has written
    deleted,         \* removed set returned by the filter
    warns,           \* number of "WARN: skipped some chunks" lines
    status,          \* "idle" | "ok" (returned) | "raise" (exception)
    pass,            \* number of filter passes run
    firstOut,        \* output of the first pass
    pc,              \* position of main
    shada,           \* file at shada_path
    backup,          \* file at shada_path + ".old"
    tmp,             \* file at tmp.name
    have_to_delete_tmp,
    answer,          \* reply to the confirmation prompt
    sameDevice,      \* tmp.name and shada_path are on one filesystem
    orig,            \* the file at shada_path before the run
    backup0,         \* the file at the backup path before the run
    exitReason       \* why main left the try block

vars == <<unpackable, fsStat, existsRaises, args, stdins, fzfOut, isatty,
          recsIn, tailIn, fin, preds, fout, deleted, warns, status, pass,
          firstOut, pc, shada, backup, tmp, have_to_delete_tmp, answer,
          sameDevice, orig, backup0, exitReason>>

envVars == <<unpackable, fsStat, existsRaises, args, stdins, fzfOut, isatty,
             recsIn, tailIn, sameDevice, orig, backup0>>

filterVars == <<fin, preds, fout, deleted, warns, status, pass, firstOut>>

mainVars == <<pc, shada, backup, tmp, have_to_delete_tmp, answer, exitReason>>

(***************************************************************************)
(* msgpack.packb: the canonical encoding, or nothing                       *)
(***************************************************************************)
EncodeScalar(e) ==
    IF e.t = "int" THEN (IF e.n < 128 THEN <<e.n>> ELSE <<204, e.n>>)
    ELSE IF e.t = "str" THEN <<160 + Len(e.b)>> \o e.b
    ELSE <<196, Len(e.b)>> \o e.b

RECURSIVE EncodeEntries(_, _)
EncodeEntries(es, i) ==
    IF i > Len(es) THEN <<>>
    ELSE EncodeScalar(es[i].k) \o EncodeScalar(es[i].v) \o EncodeEntries(es, i + 1)

packb(v) ==
    IF v \in unpackable THEN <<>>
    ELSE IF v.t = "map" THEN <<128 + Len(v.m)>> \o EncodeEntries(v.m, 1)
    ELSE EncodeScalar(Scalar(v))

(***************************************************************************)
(* Entry                                                                   *)
(***************************************************************************)
NoEntry == [typ |-> NoneV, timestamp |-> NoneV, length |-> NoneV, data |-> NoneV]

\* next() did not return a value: StopIteration gives None, any other
\* exception propagates
NoValue(r, p) ==
    IF r.st = "eof" THEN [st |-> "none", entry |-> NoEntry, next |-> p]
    ELSE [st |-> "err", entry |-> NoEntry, next |-> p]

\* line 74-75: data = next(unpacker); return Entry(...)
Group4(p, r1, r2, r3, r4) ==
    IF r4.st # "ok" THEN NoValue(r4, p)
    ELSE [st |-> "entry",
          entry |-> [typ |-> r1.val, timestamp |-> r2.val,
                     length |-> r3.val, data |-> r4.val],
          next |-> r4.next]

\* line 73: length = next(unpacker)
Group3(s, p, r1, r2, r3) ==
    IF r3.st # "ok" THEN NoValue(r3, p) ELSE Group4(p, r1, r2, r3, Unpack(s, r3.next))

\* line 72: timestamp = next(unpacker)
Group2(s, p, r1, r2) ==
    IF r2.st # "ok" THEN NoValue(r2, p) ELSE Group3(s, p, r1, r2, Unpack(s, r2.next))

\* line 71: typ = next(unpacker)
Group1(s, p, r1) ==
    IF r1.st # "ok" THEN NoValue(r1, p) ELSE Group2(s, p, r1, Unpack(s, r1.next))

StrictGroup(p, r1, g) ==
    IF r1.st = "ok" /\ g.st = "none"
    THEN [st |-> "err", entry |-> NoEntry, next |-> p]
    ELSE g

\* mutant: StopIteration is caught for the first value of a group only
from_iter_StrictGroup(s, p) ==
    StrictGroup(p, Unpack(s, p), Group1(s, p, Unpack(s, p)))

\* Entry.from_iter: four values, or None when the stream ends before the
\* fourth; a decode exception propagates
from_iter(s, p) == Group1(s, p, Unpack(s, p))

Items(entry) == <<entry.typ, entry.timestamp, entry.length, entry.data>>

RECURSIVE DumpChunk_KeepPartial(_, _, _)

\* mutant: break without emptying the chunk list
DumpChunk_KeepPartial(items, i, chunk) ==
    IF i > Len(items) \/ packb(items[i]) = <<>> THEN chunk
    ELSE DumpChunk_KeepPartial(items, i + 1, Append(chunk, packb(items[i])))

RECURSIVE DumpChunk(_, _, _)

\* lines 82-87: the item packed, appended or the list emptied
Packed(items, i, chunk, packed) ==
    IF packed # <<>> THEN DumpChunk(items, i + 1, Append(chunk, packed))
    ELSE <<>>

\* the loop of Entry.dump: the chunk list, emptied at the first item that
\* packs to nothing
DumpChunk(items, i, chunk) ==
    IF i > Len(items) THEN chunk ELSE Packed(items, i, chunk, packb(items[i]))

RECURSIVE Join(_, _)
Join(chunk, i) == IF i > Len(chunk) THEN <<>> ELSE chunk[i] \o Join(chunk, i + 1)

\* lines 85 and 88-89: the bytes written and whether the warning is printed
Dumped(chunk) ==
    [bytes |-> IF chunk # <<>> THEN Join(chunk, 1) ELSE <<>>,
     warn  |-> Len(chunk) < 4]

\* Entry.dump
dump(entry) == Dumped(DumpChunk(Items(entry), 1, <<>>))

\* mutant: the kind of a local mark left out of the list
affects_oldfiles_NoLocalMark(entry) ==
    entry.typ.t = "int" /\ entry.typ.n \in {7, 8, 11}

affects_oldfiles(entry) == entry.typ.t = "int" /\ entry.typ.n \in {7, 8, 10, 11}

\* Entry.file_name: data["f"]; st = "err" is the KeyError or TypeError
file_name(entry) ==
    LET d == entry.data
        key == Scalar(StrV(<<102>>))
    IN IF d.t = "map" /\ \E i \in 1..Len(d.m) : d.m[i].k = key
       THEN [st |-> "ok",
             val |-> Unscalar(d.m[CHOOSE i \in 1..Len(d.m) : d.m[i].k = key].v)]
       ELSE [st |-> "err", val |-> NoneV]

(***************************************************************************)
(* Predicates: [kind, lit, anchored, files]                                *)
(***************************************************************************)
GonePred == [kind |-> "gone", lit |-> <<>>, anchored |-> FALSE, files |-> {}]

PatternPred(pat) == [kind |-> "pattern", lit |-> pat.lit,
                     anchored |-> pat.anchored, files |-> {}]

InPred(files) == [kind |-> "in", lit |-> <<>>, anchored |-> FALSE, files |-> files]

\* re.search of a literal, optionally anchored at the end with $
Search(lit, anchored, s) ==
    \E i \in 1..(Len(s) + 1) :
        /\ i + Len(lit) - 1 <= Len(s)
        /\ SubSeq(s, i, i + Len(lit) - 1) = lit
        /\ anchored => i + Len(lit) - 1 = Len(s)

\* Path(x.decode()).exists(): "T", "F" or "X" (the exception propagates)
PathExists(path) ==
    IF fsStat[path] = "exists" THEN "T"
    ELSE IF fsStat[path] = "enoent" THEN "F"
    ELSE IF existsRaises THEN "X" ELSE "F"

\* one predicate applied to the value file_name returned
PredCall(pred, x) ==
    IF pred.kind = "in" THEN (IF x.t = "bin" /\ x.b \in pred.files THEN "T" ELSE "F")
    ELSE IF x.t # "bin" \/ ~Ascii(x.b) THEN "X"
    ELSE IF pred.kind = "gone"
      THEN (LET e == PathExists(x.b) IN
            IF e = "X" THEN "X" ELSE IF e = "T" THEN "F" ELSE "T")
    ELSE (IF Search(pred.lit, pred.anchored, x.b) THEN "T" ELSE "F")

\* mutant: only the first predicate is consulted
AnyPred_FirstOnly(ps, i, x) ==
    IF i > Len(ps) THEN "F" ELSE PredCall(ps[i], x)

RECURSIVE AnyPred(_, _, _)

\* the result r of predicate i: a false result moves on to the next
AnyNext(ps, i, x, r) == IF r = "F" THEN AnyPred(ps, i + 1, x) ELSE r

\* any(pred(file_name) for pred in preds): left to right, stops at the first hit
AnyPred(ps, i, x) ==
    IF i > Len(ps) THEN "F" ELSE AnyNext(ps, i, x, PredCall(ps[i], x))

RECURSIVE PatternPreds(_, _)
PatternPreds(pats, i) ==
    IF i > Len(pats) THEN <<>>
    ELSE <<PatternPred(pats[i])>> \o PatternPreds(pats, i + 1)

\* gen_preds, for a command line that is not --list and an fzf selection
\* that is not empty
gen_preds(a, stdinLines, fzfLines) ==
    (IF a.gone THEN <<GonePred>> ELSE <<>>)
    \o PatternPreds(a.PATTERNS, 1)
    \o (IF a.fzf THEN <<InPred(fzfLines)>> ELSE <<>>)
    \o (IF stdinLines # {} THEN <<InPred(stdinLines)>> ELSE <<>>)

(***************************************************************************)
(* filter_oldfiles                                                         *)
(***************************************************************************)
\* line 119: entry.dump(fout)
Written(out, del, w, d) ==
    [st |-> "go", out |-> out \o d.bytes, deleted |-> del,
     warns |-> IF d.warn THEN w + 1 ELSE w]

\* an exception leaves the loop
Raised(out, del, w) == [st |-> "raise", out |-> out, deleted |-> del, warns |-> w]

\* lines 116-119 with the result of any(...)
Hit(entry, out, del, w, f, hit) ==
    IF hit = "X" THEN Raised(out, del, w)
    ELSE IF hit = "T"
    THEN [st |-> "go", out |-> out, deleted |-> del \cup {f.val.b}, warns |-> w]
    ELSE Written(out, del, w, dump(entry))

\* lines 115-119 with the result of entry.file_name()
Named(entry, ps, out, del, w, f) ==
    IF f.st = "err" THEN Raised(out, del, w)
    ELSE Hit(entry, out, del, w, f, AnyPred(ps, 1, f.val))

HitNoContinue(entry, out, del, w, f, hit) ==
    IF hit = "X" THEN Raised(out, del, w)
    ELSE IF hit = "T"
    THEN Written(out, del \cup {f.val.b}, w, dump(entry))
    ELSE Written(out, del, w, dump(entry))

NamedNoContinue(entry, ps, out, del, w, f) ==
    IF f.st = "err" THEN Raised(out, del, w)
    ELSE HitNoContinue(entry, out, del, w, f, AnyPred(ps, 1, f.val))

\* mutant: the continue after deleted.add is missing
FilterStep_NoContinue(entry, ps, out, del, w) ==
    IF affects_oldfiles(entry)
    THEN NamedNoContinue(entry, ps, out, del, w, file_name(entry))
    ELSE Written(out, del, w, dump(entry))

\* lines 114-119: one entry of the loop of filter_oldfiles; st = "raise" when
\* file_name or a predicate raises
FilterStep(entry, ps, out, del, w) ==
    IF affects_oldfiles(entry)
    THEN Named(entry, ps, out, del, w, file_name(entry))
    ELSE Written(out, del, w, dump(entry))

RECURSIVE FilterLoop(_, _, _, _, _, _)

\* the entry has been handled: stop on an exception, else read the next one
Stepped(s, p, ps, step) ==
    IF step.st = "raise" THEN step
    ELSE FilterLoop(s, p, ps, step.out, step.deleted, step.warns)

\* lines 111-113 with the result of Entry.from_iter
Read(s, ps, out, del, w, r) ==
    IF r.st = "err" THEN Raised(out, del, w)
    ELSE IF r.st = "none" THEN [st |-> "ok", out |-> out, deleted |-> del, warns |-> w]
    ELSE Stepped(s, r.next, ps, FilterStep(r.entry, ps, out, del, w))

\* lines 108-120: the loop; st = "ok" when the function returns
FilterLoop(s, p, ps, out, del, w) == Read(s, ps, out, del, w, from_iter(s, p))

filter_oldfiles(s, ps) == FilterLoop(s, 1, ps, <<>>, {}, 0)


(***************************************************************************)
(* Inputs                                                                  *)
(***************************************************************************)
PathA == <<97>>

PathAB == <<97, 98>>

Paths == {PathA, PathAB}

\* encoded records: kind, timestamp, length, payload
Chunks == <<
    <<8, 1, 5, 129, 161, 102, 196, 1, 97>>,           \* jump, f = "a"
    <<7, 204, 2, 6, 129, 161, 102, 196, 2, 97, 98>>,  \* global mark, f = "ab", uint8 timestamp
    <<4, 3, 5, 129, 161, 102, 196, 1, 97>>,           \* search history whose payload has f = "a"
    <<11, 3, 3, 129, 161, 120, 1>>,                   \* change without the key f
    <<2, 3, 3, 129, 161, 120, 1>>,                    \* register, payload {x: 1}
    <<10, 9, 5, 129, 161, 102, 196, 1, 97>>,          \* local mark, f = "a", timestamp 9
    <<8, 1, 193, 0>> >>                               \* reserved byte in the third value

\* what can follow the last record: nothing, or a group cut short
Tails == {<<>>, <<8>>, <<8, 1>>, <<8, 1, 5>>, <<8, 1, 5, 129, 161>>}

\* values the codec may be unable to represent
PayloadX == MapV(<<[k |-> Scalar(StrV(<<120>>)), v |-> Scalar(IntV(1))]>>)

Codecs == {{}, {PayloadX, IntV(9)}}

PatEndB == [lit |-> <<98>>, anchored |-> TRUE]

PatternLists == {<<>>, <<PatEndB>>}

RECURSIVE Flatten(_, _)
Flatten(ids, i) == IF i > Len(ids) THEN <<>> ELSE Chunks[ids[i]] \o Flatten(ids, i + 1)

RecSeqs(n) == UNION {[1..k -> 1..Len(Chunks)] : k \in 0..n}

\* history files of a run of main: a jump, a global mark, a record of another
\* kind and a malformed group
MainRecSeqs(n) == UNION {[1..k -> {1, 2, 3, 7}] : k \in 0..n}

Absent == [present |-> FALSE, content |-> <<>>, mode |-> 0]

File(content, mode) == [present |-> TRUE, content |-> content, mode |-> mode]

\* the filesystem seen by Path.exists, and the interpreter's Path.exists
InitFs ==
    /\ fsStat \in [Paths -> {"exists", "enoent", "eacces"}]
    /\ fsStat[PathAB] # "eacces"
    /\ args.gone \/ fsStat = [q \in Paths |-> "exists"]
    /\ existsRaises \in BOOLEAN
    /\ (\E q \in Paths : fsStat[q] = "eacces") \/ existsRaises

(***************************************************************************)
(* Spec: filter_oldfiles applied to a history file, then to its own output *)
(***************************************************************************)
Init ==
    /\ unpackable \in Codecs
    /\ args \in [list : {FALSE}, gone : BOOLEAN, yes : {FALSE}, fzf : {FALSE},
                 PATTERNS : PatternLists]
    /\ InitFs
    /\ stdins \in {{}, {PathAB}}
    /\ fzfOut = IF args.fzf THEN {PathA} ELSE {}
    /\ isatty = (stdins = {})
    /\ recsIn \in RecSeqs(MaxRecs)
    /\ tailIn \in Tails
    /\ fin = Flatten(recsIn, 1) \o tailIn
    /\ preds = gen_preds(args, stdins, fzfOut)
    /\ fout = <<>>
    /\ deleted = {}
    /\ warns = 0
    /\ status = "idle"
    /\ pass = 0
    /\ firstOut = <<>>
    /\ pc = "lib"
    /\ orig = File(fin, 384)
    /\ shada = orig
    /\ backup0 = Absent
    /\ backup = Absent
    /\ tmp = Absent
    /\ have_to_delete_tmp = FALSE
    /\ answer = ""
    /\ sameDevice = TRUE
    /\ exitReason = "none"

\* the pass ends with result r: what it wrote, what it returns or raises
Returns(r) ==
    /\ fout' = r.out
    /\ deleted' = r.deleted
    /\ warns' = r.warns
    /\ status' = r.st

\* filter_oldfiles(fin, fout, preds) on the history file
Filter ==
    /\ pc = "lib"
    /\ pass = 0
    /\ Returns(filter_oldfiles(fin, preds))
    /\ firstOut' = fout'
    /\ pass' = 1
    /\ UNCHANGED <<fin, preds>>
    /\ UNCHANGED envVars
    /\ UNCHANGED mainVars

\* filter_oldfiles again, with the same predicates, on what the first pass wrote
Refilter ==
    /\ pc = "lib"
    /\ pass = 1
    /\ status = "ok"
    /\ fin' = fout
    /\ Returns(filter_oldfiles(fout, preds))
    /\ pass' = 2
    /\ UNCHANGED <<preds, firstOut>>
    /\ UNCHANGED envVars
    /\ UNCHANGED mainVars

Next == Filter \/ Refilter

Spec == Init /\ [][Next]_vars


(***************************************************************************)
(* MainSpec: one run of main                                               *)
(***************************************************************************)
ShadaMode == 384

Answers == {"", "Y", "yes", "n"}

\* str.lower on the answers above
Lower(a) == IF a = "Y" THEN "y" ELSE a

\* len(sys.argv) == 1
NoArgs(a) == ~a.list /\ ~a.gone /\ ~a.yes /\ ~a.fzf /\ a.PATTERNS = <<>>

InitMain ==
    /\ unpackable = {}
    /\ args \in [list : BOOLEAN, gone : BOOLEAN, yes : BOOLEAN, fzf : BOOLEAN,
                 PATTERNS : PatternLists]
    /\ args.list => (~args.gone /\ ~args.yes /\ ~args.fzf /\ args.PATTERNS = <<>>)
    /\ fsStat = [q \in Paths |-> IF q = PathA THEN "enoent" ELSE "exists"]
    /\ existsRaises = TRUE
    /\ isatty \in BOOLEAN
    /\ stdins \in IF isatty THEN {{}} ELSE {{}, {PathAB}}
    /\ fzfOut \in IF args.fzf THEN {{}, {PathA}} ELSE {{}}
    /\ recsIn \in MainRecSeqs(MaxMainRecs)
    /\ tailIn = <<>>
    /\ orig \in {File(Flatten(recsIn, 1) \o tailIn, md) : md \in {ShadaMode, 420}}
    /\ shada = orig
    /\ backup0 \in {Absent, File(<<0>>, ShadaMode)}
    /\ backup = backup0
    /\ tmp = Absent
    /\ sameDevice \in BOOLEAN
    /\ have_to_delete_tmp = FALSE
    /\ answer = ""
    /\ exitReason = "none"
    /\ pc = "start"
    /\ fin = <<>>
    /\ preds = <<>>
    /\ fout = <<>>
    /\ deleted = {}
    /\ warns = 0
    /\ status = "idle"
    /\ pass = 0
    /\ firstOut = <<>>

\* sys.exit() or an exception before the try block: no cleanup runs
Exit(reason) ==
    /\ pc' = "done"
    /\ exitReason' = reason

\* sys.exit() or an exception inside the try block: the finally clause is next
Leave(reason) ==
    /\ pc' = "finally"
    /\ exitReason' = reason

\* lines 189-198: help, stdin, parse_args, get_shada_path, gen_preds
Start ==
    /\ pc = "start"
    /\ \/ /\ isatty /\ NoArgs(args)
          /\ Exit("help")
          /\ UNCHANGED preds
       \/ /\ ~(isatty /\ NoArgs(args))
          /\ \/ /\ Exit("noshada")
                /\ UNCHANGED preds
             \/ /\ args.list
                /\ Exit("list")
                /\ UNCHANGED preds
             \/ /\ ~args.list
                /\ args.fzf /\ fzfOut = {}
                /\ Exit("nofzf")
                /\ UNCHANGED preds
             \/ /\ ~args.list
                /\ ~(args.fzf /\ fzfOut = {})
                /\ preds' = gen_preds(args, stdins, fzfOut)
                /\ pc' = "mktemp"
                /\ UNCHANGED exitReason
    /\ UNCHANGED <<fin, fout, deleted, warns, status, pass, firstOut>>
    /\ UNCHANGED <<shada, backup, tmp, have_to_delete_tmp, answer>>
    /\ UNCHANGED envVars

\* lines 200-202: NamedTemporaryFile(delete=False), close
MkTemp ==
    /\ pc = "mktemp"
    /\ tmp' = File(<<>>, ShadaMode)
    /\ have_to_delete_tmp' = TRUE
    /\ pc' = "chmod"
    /\ UNCHANGED <<shada, backup, answer, exitReason>>
    /\ UNCHANGED filterVars
    /\ UNCHANGED envVars

\* mutant: chmod to 0o644
Chmod_WorldReadable ==
    /\ pc = "chmod"
    /\ tmp' = [tmp EXCEPT !.mode = 420]
    /\ pc' = "open"
    /\ UNCHANGED <<shada, backup, have_to_delete_tmp, answer, exitReason>>
    /\ UNCHANGED filterVars
    /\ UNCHANGED envVars

\* line 204: os.chmod(tmp.name, 0o600)
Chmod ==
    /\ pc = "chmod"
    /\ tmp' = [tmp EXCEPT !.mode = ShadaMode]
    /\ pc' = "open"
    /\ UNCHANGED <<shada, backup, have_to_delete_tmp, answer, exitReason>>
    /\ UNCHANGED filterVars
    /\ UNCHANGED envVars

\* lines 205-206: open both files, filter_oldfiles, close both files
OpenAndFilter ==
    /\ pc = "open"
    /\ \/ /\ Leave("openfail")
          /\ UNCHANGED <<tmp, fin, fout, deleted, warns, status, pass, firstOut>>
       \/ /\ fin' = shada.content
          /\ Returns(filter_oldfiles(shada.content, preds))
          /\ tmp' = [tmp EXCEPT !.content = fout']
          /\ firstOut' = fout'
          /\ pass' = 1
          /\ IF status' = "raise" THEN Leave("fatal")
             ELSE pc' = "check" /\ UNCHANGED exitReason
    /\ UNCHANGED <<preds, shada, backup, have_to_delete_tmp, answer>>
    /\ UNCHANGED envVars

\* lines 207-209: Nothing to delete
Check ==
    /\ pc = "check"
    /\ IF deleted = {} THEN Leave("nothing")
       ELSE pc' = "confirm" /\ UNCHANGED exitReason
    /\ UNCHANGED <<shada, backup, tmp, have_to_delete_tmp, answer>>
    /\ UNCHANGED filterVars
    /\ UNCHANGED envVars

\* lines 210-219: report, or ask for confirmation
Confirm ==
    /\ pc = "confirm"
    /\ \/ /\ args.yes \/ ~isatty
          /\ pc' = "backup"
          /\ UNCHANGED <<answer, exitReason>>
       \/ /\ ~(args.yes \/ ~isatty)
          /\ \E a \in Answers :
               /\ answer' = a
               /\ IF Lower(a) \notin {"", "y", "yes"} THEN Leave("declined")
                  ELSE pc' = "backup" /\ UNCHANGED exitReason
    /\ UNCHANGED <<shada, backup, tmp, have_to_delete_tmp>>
    /\ UNCHANGED filterVars
    /\ UNCHANGED envVars

\* mutant: the temporary file is moved to the backup path
MoveBackup_WrongSource ==
    /\ pc = "backup"
    /\ \/ /\ backup' = tmp
          /\ tmp' = Absent
          /\ pc' = "install"
          /\ UNCHANGED exitReason
       \/ /\ Leave("backupfail")
          /\ UNCHANGED <<tmp, backup>>
    /\ UNCHANGED <<shada, have_to_delete_tmp, answer>>
    /\ UNCHANGED filterVars
    /\ UNCHANGED envVars

\* lines 220-222: shutil.move(shada_path, backup), a rename within one directory
MoveBackup ==
    /\ pc = "backup"
    /\ \/ /\ backup' = shada
          /\ shada' = Absent
          /\ pc' = "install"
          /\ UNCHANGED exitReason
       \/ /\ Leave("backupfail")
          /\ UNCHANGED <<shada, backup>>
    /\ UNCHANGED <<tmp, have_to_delete_tmp, answer>>
    /\ UNCHANGED filterVars
    /\ UNCHANGED envVars

\* line 223: shutil.move(tmp.name, shada_path): os.rename on one filesystem,
\* otherwise copy2 to the destination followed by unlink of the source; a copy
\* that fails part way leaves a prefix at the destination, created with the
\* bits the umask gives (0o644)
MoveInstall ==
    /\ pc = "install"
    /\ \/ /\ shada' = File(tmp.content, tmp.mode)
          /\ tmp' = Absent
          /\ pc' = "commit"
          /\ UNCHANGED exitReason
       \/ /\ Leave("installfail")
          /\ UNCHANGED <<shada, tmp>>
       \/ /\ ~sameDevice
          /\ Len(tmp.content) > 0
          /\ \E k \in {0, Len(tmp.content) - 1} :
               shada' = File(SubSeq(tmp.content, 1, k), 420)
          /\ Leave("installfail")
          /\ UNCHANGED tmp
    /\ UNCHANGED <<backup, have_to_delete_tmp, answer>>
    /\ UNCHANGED filterVars
    /\ UNCHANGED envVars

\* lines 224-225
Commit ==
    /\ pc = "commit"
    /\ have_to_delete_tmp' = FALSE
    /\ Leave("committed")
    /\ UNCHANGED <<shada, backup, tmp, answer>>
    /\ UNCHANGED filterVars
    /\ UNCHANGED envVars

\* mutant: the finally clause does not unlink
Finally_NoUnlink ==
    /\ pc = "finally"
    /\ pc' = "done"
    /\ UNCHANGED <<shada, backup, tmp, have_to_delete_tmp, answer, exitReason>>
    /\ UNCHANGED filterVars
    /\ UNCHANGED envVars

\* lines 226-228: finally
Finally ==
    /\ pc = "finally"
    /\ tmp' = IF have_to_delete_tmp THEN Absent ELSE tmp
    /\ pc' = "done"
    /\ UNCHANGED <<shada, backup, have_to_delete_tmp, answer, exitReason>>
    /\ UNCHANGED filterVars
    /\ UNCHANGED envVars

\* the process is terminated between two steps; no Python code runs
Kill ==
    /\ pc \in {"mktemp", "chmod", "open", "check", "confirm", "backup",
               "install", "commit", "finally"}
    /\ pc' = "killed"
    /\ exitReason' = IF exitReason = "none" THEN pc ELSE exitReason
    /\ UNCHANGED <<shada, backup, tmp, have_to_delete_tmp, answer>>
    /\ UNCHANGED filterVars
    /\ UNCHANGED envVars

NextMain ==
    \/ Start \/ MkTemp \/ Chmod \/ OpenAndFilter \/ Check \/ Confirm
    \/ MoveBackup \/ MoveInstall \/ Commit \/ Finally \/ Kill

MainSpec == InitMain /\ [][NextMain]_vars


(***************************************************************************)
(* Properties of filter_oldfiles (Spec)                                    *)
(***************************************************************************)
\* the records of the input, decoded one encoded record at a time
InEntries == [i \in 1..Len(recsIn) |-> from_iter(Chunks[recsIn[i]], 1).entry]

RECURSIVE DecodeAll(_, _)
DecodeAll(s, p) ==
    LET r == from_iter(s, p) IN
    IF r.st = "entry" THEN <<r.entry>> \o DecodeAll(s, r.next) ELSE <<>>

HistoryAffecting(e) == e.typ.t = "int" /\ e.typ.n \in {7, 8, 10, 11}

\* some predicate of the list returns true on the record's file path
Matched(e) ==
    /\ HistoryAffecting(e)
    /\ file_name(e).st = "ok"
    /\ \E j \in 1..Len(preds) : PredCall(preds[j], file_name(e).val) = "T"

Encodable(e) == \A j \in 1..4 : Items(e)[j] \notin unpackable

RECURSIVE Select(_, _, _)
Select(es, keep, i) ==
    IF i > Len(es) THEN <<>>
    ELSE (IF i \in keep THEN <<es[i]>> ELSE <<>>) \o Select(es, keep, i + 1)

Returned == pc = "lib" /\ pass = 1 /\ status = "ok"

C2_RemovedSetIsMatchedPaths ==
    Returned =>
      /\ deleted = {file_name(InEntries[i]).val.b :
                      i \in {j \in 1..Len(recsIn) : Matched(InEntries[j])}}
      /\ preds = <<>> => deleted = {}

\* two records of one path that two predicates match: reported once
C2_Witness ==
    /\ Returned
    /\ Len(recsIn) = 2
    /\ recsIn[1] = recsIn[2]
    /\ Cardinality({j \in 1..Len(preds) :
                      PredCall(preds[j], file_name(InEntries[1]).val) = "T"}) >= 2
    /\ Cardinality(deleted) = 1

\* a record that reaches Entry.dump and has a field the codec cannot encode
FailsToEncode(e) ==
    /\ ~Encodable(e)
    /\ \/ ~HistoryAffecting(e)
       \/ file_name(e).st = "ok" /\ AnyPred(preds, 1, file_name(e).val) = "F"

Failing == {i \in 1..Len(recsIn) : FailsToEncode(InEntries[i])}

C7_PartialGroupDiscarded ==
    (pc = "lib" /\ pass = 1 /\ tailIn # <<>>) =>
      LET whole == Flatten(recsIn, 1)
          r == filter_oldfiles(whole, preds)
      IN /\ from_iter(fin, Len(whole) + 1).st = "none"
         /\ fout = r.out
         /\ deleted = r.deleted
         /\ warns = r.warns
         /\ status = r.st

\* three values of a fourth group after a written and a removed record
C7_Witness ==
    /\ Returned
    /\ tailIn = <<8, 1, 5>>
    /\ Len(recsIn) = 2
    /\ deleted # {}
    /\ fout # <<>>

\* C8 as stated: the existence predicate returns false for a path that exists
\* and for a path whose lookup fails with an error other than not-found, and
\* alone it removes no record of such a path
C8_ExistencePredicateConservative ==
    (pc = "lib" /\ pass = 1 /\ preds = <<GonePred>>) =>
      \A i \in 1..Len(recsIn) :
        LET e == InEntries[i]
            f == file_name(e)
        IN (HistoryAffecting(e) /\ f.st = "ok" /\ fsStat[f.val.b] # "enoent") =>
             /\ PredCall(GonePred, f.val) = "F"
             /\ f.val.b \notin deleted

\* C10: a second pass with the same predicates over the output of the first
\* returns an empty removed set and writes its input unchanged
C10_RefilterIdempotent ==
    (pc = "lib" /\ pass = 2) =>
      /\ status = "ok"
      /\ deleted = {}
      /\ fin = firstOut
      /\ fout = fin

\* the first pass removed a record, re-encoded a timestamp and kept a record
C10_Witness ==
    /\ pc = "lib"
    /\ pass = 2
    /\ recsIn = <<1, 2>>
    /\ Matched(InEntries[1])
    /\ fout # <<>>
    /\ fout # Chunks[2]

(***************************************************************************)
(* Properties of main (MainSpec)                                           *)
(***************************************************************************)
Committed == pc = "done" /\ exitReason = "committed"

\* C3 as stated: the pre-run content is at the original path or at the backup
\* path, and the file at the original path is the original, absent (backed
\* up) or the complete filtered file
C3_OriginalNeverLostNorHalfWritten ==
    pc # "lib" =>
      /\ shada = orig \/ backup = orig
      /\ \/ shada = orig
         \/ ~shada.present
         \/ pass = 1 /\ shada.content = fout

\* C4: a run that ends because nothing matched, the user declined, the
\* history file could not be opened or the pass raised leaves the original in
\* place, the backup path as it was and no temporary file
C4_AbandonedRunLeavesOriginal ==
    (pc = "done" /\ exitReason \in {"nothing", "declined", "openfail", "fatal"}) =>
      /\ shada = orig
      /\ backup = backup0
      /\ ~tmp.present

\* the user answered n to the prompt after a pass that removed something
C4_Witness ==
    /\ pc = "done"
    /\ exitReason = "declined"
    /\ answer = "n"
    /\ deleted # {}
    /\ have_to_delete_tmp

\* the run stopped after the backup relocation and before the install
StoppedBetween ==
    /\ pc \in {"done", "killed"}
    /\ exitReason \in {"install", "installfail"}

\* C5 as stated: a run that stops between the two relocations leaves the
\* original content at the backup path and the filtered file at its
\* temporary location
C5_StoppedBetweenKeepsFiltered ==
    StoppedBetween =>
      /\ backup = orig
      /\ tmp.present
      /\ tmp.content = fout

\* C5 amended: a run that is terminated between the two relocations, or after
\* a failed install and before the cleanup, leaves the original content at
\* the backup path and the filtered file at its temporary location; a run
\* whose install fails and whose cleanup runs leaves the original content at
\* the backup path and no temporary file
C5_TerminatedBetweenKeepsFiltered ==
    /\ (pc = "killed" /\ exitReason \in {"install", "installfail"}) =>
         /\ backup = orig
         /\ tmp = File(fout, ShadaMode)
         /\ pass = 1 /\ status = "ok"
    /\ (pc = "done" /\ exitReason = "installfail") =>
         /\ backup = orig
         /\ ~tmp.present

\* terminated before the install started, with a non-empty filtered file
C5_Witness ==
    /\ pc = "killed"
    /\ exitReason = "install"
    /\ ~shada.present
    /\ tmp.present
    /\ tmp.content # <<>>

\* C9 as stated: the installed file has the permission bits of the original,
\* and so has the temporary file from its creation
C9_ModeOfOriginal ==
    pc # "lib" =>
      /\ Committed => shada.mode = orig.mode
      /\ tmp.present => tmp.mode = orig.mode

\* C9 amended: the installed file and, from its creation, the temporary file
\* have the bits 0o600, whatever the bits of the original
C9_ModeIsShadaDefault ==
    pc # "lib" =>
      /\ Committed => shada.present /\ shada.mode = ShadaMode
      /\ tmp.present => tmp.mode = ShadaMode

\* committed over an original that had other bits
C9_Witness ==
    /\ Committed
    /\ orig.mode # ShadaMode
    /\ shada.mode = ShadaMode

=============================================================================
